---- MODULE Spec2Model ----
(***************************************************************************)
(* Model of the blueprint agent backend (src/backend/server.js): the       *)
(* process-wide session map and the three request handlers /agent/start,   *)
(* /agent/message and /agent/finalize.  Every handler is an async function *)
(* run by Node's single-threaded event loop, so a handler runs atomically  *)
(* from one await to the next and the handlers of different requests       *)
(* interleave at their awaits.  One action models one such run.            *)
(*                                                                         *)
(* JavaScript values: a string is a sequence of atoms (an atom is one      *)
(* character, or one fixed literal of the source that no code inspects);   *)
(* undefined and null are the reserved one-atom sequences below.  Objects  *)
(* live in heap and are named by their index, as a JavaScript reference    *)
(* names an object.                                                        *)
(***************************************************************************)
EXTENDS Integers, Sequences, FiniteSets, TLC

\* ------------------------------------------------------------ bounds
MaxReq == 3          \* requests the server receives
MaxClock == 1        \* the last millisecond Date.now() reaches
MaxPieces == 3       \* pieces in a text handed to cleanText on its own

Reqs == 1..MaxReq

\* ------------------------------------------------------------ JS values
Undefined == <<"#undefined">>
Null == <<"#null">>
EmptyStr == <<>>

\* !v for the values the handlers test
Falsy(v) == v \in {Undefined, Null, EmptyStr}

\* a reference that names no object (sessions[k] for an absent key)
NoRef == 0
\* what sessions[k] yields for a key inherited from Object.prototype
\* ("constructor", "__proto__", ...): an object with no session fields
ProtoRef == -1

ProtoKeys == {<<"constructor">>}

\* ------------------------------------------------------------ cleanText
\* the non-ASCII characters the code names, one atom each
NBSP == "U+00A0"
RSQUO == "U+2019"
LSQUO == "U+2018"
LDQUO == "U+201C"
RDQUO == "U+201D"
BULLET == "U+2022"
NDASH == "U+2013"
MDASH == "U+2014"
WhiteSpace == {" ", "\n", "\t", "\r", NBSP}

\* the named entities of he.decode the model covers: name (without & and ;)
\* and the character it decodes to
EntityNames == {<<"a", "m", "p">>, <<"l", "t">>, <<"g", "t">>, <<"n", "b", "s", "p">>}

EntityChar(n) ==
  CASE n = <<"a", "m", "p">> -> "&"
    [] n = <<"l", "t">> -> "<"
    [] n = <<"g", "t">> -> ">"
    [] n = <<"n", "b", "s", "p">> -> NBSP

\* the entity name that starts at position i of s, or <<>>: "&name;", or
\* "&name" with the semicolon left out (these names are legacy references,
\* which he.decode accepts without it outside attribute values)
EntityAt(s, i) ==
  LET cands == {n \in EntityNames :
                  /\ i + Len(n) <= Len(s)
                  /\ s[i] = "&"
                  /\ SubSeq(s, i + 1, i + Len(n)) = n}
  IN IF cands = {} THEN <<>> ELSE CHOOSE n \in cands : TRUE

\* the characters the reference at position i takes up
EntityLen(s, i, n) ==
  IF i + Len(n) + 1 <= Len(s) /\ s[i + Len(n) + 1] = ";"
  THEN Len(n) + 2
  ELSE Len(n) + 1

\* he.decode: one left-to-right pass; decoded text is not scanned again
RECURSIVE DecodeFrom(_, _)
DecodeFrom(s, i) ==
  IF i > Len(s) THEN <<>>
  ELSE LET n == EntityAt(s, i)
       IN IF n = <<>>
          THEN <<s[i]>> \o DecodeFrom(s, i + 1)
          ELSE <<EntityChar(n)>> \o DecodeFrom(s, i + EntityLen(s, i, n))

heDecode(s) == DecodeFrom(s, 1)

\* the three character-class replacements of cleanText
MapChar(c) ==
  IF c \in {RSQUO, LSQUO} THEN "'"
  ELSE IF c \in {LDQUO, RDQUO} THEN "\""
  ELSE IF c \in {BULLET, NDASH, MDASH} THEN "-"
  ELSE c

RECURSIVE TrimLeft(_)
TrimLeft(s) ==
  IF s # <<>> /\ Head(s) \in WhiteSpace THEN TrimLeft(Tail(s)) ELSE s

RECURSIVE TrimRight(_)
TrimRight(s) ==
  IF s # <<>> /\ s[Len(s)] \in WhiteSpace
  THEN TrimRight(SubSeq(s, 1, Len(s) - 1))
  ELSE s

Trim(s) == TrimRight(TrimLeft(s))

\* mutant of cleanText: the asterisks of markdown are removed as well
cleanTextNoStars(raw) ==
  LET decoded == heDecode(IF Falsy(raw) THEN EmptyStr ELSE raw)
      NotStar(c) == c # "*"
  IN Trim(SelectSeq([i \in 1..Len(decoded) |-> MapChar(decoded[i])], NotStar))

cleanText(raw) ==
  LET decoded == heDecode(IF Falsy(raw) THEN EmptyStr ELSE raw)
  IN Trim([i \in 1..Len(decoded) |-> MapChar(decoded[i])])

\* ------------------------------------------------------------ callGroqAI
\* What the completion endpoint can do to one call: the fetch or res.json()
\* throws, or a JSON body arrives whose choices[0].message.content is
\* absent (Undefined) or a string.
RawReplies == {<<" ">>, <<"A">>, <<" ", BULLET, "B">>}

GatewayOutcomes ==
  {[kind |-> "throw", content |-> Undefined]}
    \cup {[kind |-> "data", content |-> c] : c \in {Undefined} \cup RawReplies}

\* mutant of callGroqAI: the content is returned as it came, not cleaned
callGroqAIRaw(outcome) ==
  IF outcome.kind = "throw" THEN Null
  ELSE IF Falsy(outcome.content) THEN Null
  ELSE outcome.content

callGroqAI(outcome) ==
  IF outcome.kind = "throw" THEN Null
  ELSE IF Falsy(outcome.content) THEN Null
  ELSE cleanText(outcome.content)

\* ------------------------------------------------------------ renderer
\* markdown.split(/\n+/): the pieces between maximal runs of newlines
RECURSIVE SkipNewlines(_, _)
SkipNewlines(s, i) ==
  IF i <= Len(s) /\ s[i] = "\n" THEN SkipNewlines(s, i + 1) ELSE i

RECURSIVE SplitFrom(_, _, _)
SplitFrom(s, start, i) ==
  IF i > Len(s) THEN <<SubSeq(s, start, Len(s))>>
  ELSE IF s[i] = "\n"
       THEN LET j == SkipNewlines(s, i)
            IN <<SubSeq(s, start, i - 1)>> \o SplitFrom(s, j, j)
       ELSE SplitFrom(s, start, i + 1)

SplitParagraphs(markdown) == SplitFrom(markdown, 1, 1)

StartsWith(p, pre) == Len(p) >= Len(pre) /\ SubSeq(p, 1, Len(pre)) = pre
EndsWith(p, suf) ==
  Len(p) >= Len(suf) /\ SubSeq(p, Len(p) - Len(suf) + 1, Len(p)) = suf

\* p.replace(/\*\*/g, ""): every non-overlapping "**", left to right
RECURSIVE StripBold(_)
StripBold(p) ==
  IF p = <<>> THEN <<>>
  ELSE IF StartsWith(p, <<"*", "*">>) THEN StripBold(SubSeq(p, 3, Len(p)))
  ELSE <<Head(p)>> \o StripBold(Tail(p))

\* p.replace(/^#+\s*/, "")
RECURSIVE StripHashes(_)
StripHashes(p) ==
  IF p # <<>> /\ Head(p) = "#" THEN StripHashes(Tail(p)) ELSE TrimLeft(p)

\* the doc.font(..).text(..) call drawMarkdown makes for one trimmed,
\* non-empty paragraph; its options are { lineGap: 4 } in every branch, so
\* no call indents its text
DrawParagraph(p) ==
  IF StartsWith(p, <<"*", "*">>) /\ EndsWith(p, <<"*", "*">>)
  THEN [font |-> "Helvetica-Bold", indent |-> 0, text |-> StripBold(p)]
  ELSE IF StartsWith(p, <<"-", " ">>) \/ StartsWith(p, <<"*", " ">>)
  THEN [font |-> "Helvetica", indent |-> 0, text |-> <<BULLET, " ">> \o SubSeq(p, 3, Len(p))]
  ELSE IF StartsWith(p, <<"#">>)
  THEN [font |-> "Helvetica-Bold", indent |-> 0, text |-> StripHashes(p)]
  ELSE [font |-> "Helvetica", indent |-> 0, text |-> p]

RECURSIVE DrawEach(_)
DrawEach(paragraphs) ==
  IF paragraphs = <<>> THEN <<>>
  ELSE LET p == Trim(Head(paragraphs))
       IN (IF p = <<>> THEN <<>> ELSE <<DrawParagraph(p)>>)
            \o DrawEach(Tail(paragraphs))

drawMarkdown(markdown) == DrawEach(SplitParagraphs(markdown))

TitleBlock == [font |-> "title", text |-> <<"Website Blueprint">>]
DiscountLine == [font |-> "discount", text |-> <<"Discount: 25% off your next project">>]
CallToAction == [font |-> "trailer", text |-> <<"Call to Action: Contact me to get started!">>]

\* mutant of createPDFBuffer: the call to action is drawn before the body
createPDFBufferTrailerFirst(text) ==
  <<TitleBlock, DiscountLine, CallToAction>> \o drawMarkdown(text)

\* the text calls createPDFBuffer makes on the document, in order; the
\* resolved buffer holds exactly these
createPDFBuffer(text) ==
  <<TitleBlock, DiscountLine>> \o drawMarkdown(text) \o <<CallToAction>>

\* ------------------------------------------------------------ state
VARIABLES
  now,        \* the last value Date.now() returned, in milliseconds
  sessions,   \* the own properties of the sessions object: key -> reference
  heap,       \* the session objects ever created; a reference is an index
  app,        \* the state of the frontend's App component (unused while the
              \* server is looked at on its own)
  probe,      \* a text function applied on its own: its name, its argument
              \* and the results so far (unused while the server runs)
  req         \* per request: its body, its handler's locals and position,
              \* the external calls it made (aiArg, pdfArg, mailArg: empty, or
              \* the argument list), how their promises settled (ai, pdf,
              \* mail) and the response it sent (status 0: none yet)

vars == <<now, sessions, heap, req, probe, app>>

SystemPrompt ==
  <<"You are a professional web design consultant generating detailed blueprints.">>

\* `Create a detailed website blueprint for this idea: "${idea}".`
UserPrompt(idea) ==
  <<"Create a detailed website blueprint for this idea: \"">> \o idea \o <<"\".">>

Msg(role, content) == [role |-> role, content |-> content]

\* Date.now().toString(), the clock reading t
NowString(t) == <<ToString(t)>>

\* what Date.now() can return: the clock never runs backwards
ClockReadings == now..MaxClock

\* what clients put in a request body
Ideas == {Undefined, <<"bakery site">>}
\* each client has an address of its own
Emails(r) == {EmptyStr, <<"user", ToString(r), "@b.com">>}
\* no code inspects the message: every request brings a text of its own
Messages(r) == {<<"change ", ToString(r)>>}
SessionIds ==
  {Undefined} \cup ProtoKeys \cup {<<ToString(t)>> : t \in 0..MaxClock}

NoBody ==
  [error |-> Undefined, sessionId |-> Undefined, blueprint |-> Undefined,
   reply |-> Undefined, message |-> Undefined]

ErrorBody(text) == [NoBody EXCEPT !.error = <<text>>]

IdleReq ==
  [kind |-> "none", pc |-> "idle",
   idea |-> Undefined, email |-> Undefined,
   sessionId |-> Undefined, message |-> Undefined,
   sid |-> Undefined, session |-> NoRef,
   aiArg |-> <<>>, ai |-> Undefined,
   pdfArg |-> <<>>, pdf |-> "none", mailArg |-> <<>>, mail |-> "none",
   seen |-> {}, status |-> 0, body |-> NoBody]

\* the Finalize calls on session id that have answered with success
\* (history: what a request finds when it arrives)
Finalized(id) ==
  {f \in Reqs : req[f].kind = "finalize" /\ req[f].status = 200 /\ req[f].sessionId = id}

\* App's useState initial values (4-12)
AppInit ==
  [sessionId |-> Null, blueprint |-> EmptyStr, instruction |-> EmptyStr,
   message |-> EmptyStr,
   loadingGenerate |-> FALSE, loadingImprove |-> FALSE, loadingFinalize |-> FALSE]

\* no function is being applied on its own
NoProbe == [fn |-> "none", arg |-> Undefined, out |-> <<>>]

Init ==
  /\ now = 0
  /\ sessions = [k \in {} |-> NoRef]
  /\ heap = <<>>
  /\ req = [r \in Reqs |-> IdleReq]
  /\ probe = NoProbe
  /\ app = AppInit

\* requests are numbered in their order of arrival
Arrives(r) ==
  /\ req[r].kind = "none"
  /\ IF r = 1 THEN TRUE ELSE req[r - 1].kind # "none"

\* res.status(code).json(body), ending the handler
Respond(r, rec, code, body) ==
  req' = [req EXCEPT ![r] = [rec EXCEPT !.pc = "done", !.status = code, !.body = body]]

\* sessions[key]: an own property, else what Object.prototype supplies
Lookup(key) ==
  IF key \in DOMAIN sessions THEN sessions[key]
  ELSE IF key \in ProtoKeys THEN ProtoRef
  ELSE NoRef

\* ------------------------------------------------------------ /agent/start
\* mutant of StartBegin: only the idea is validated
StartBeginIdeaOnly(r, idea, email, t) ==
  /\ Arrives(r)
  /\ LET rec == [IdleReq EXCEPT !.kind = "start", !.idea = idea, !.email = email]
     IN IF Falsy(idea)
        THEN /\ Respond(r, rec, 400, ErrorBody("Idea and email required"))
             /\ t = now
             /\ now' = now
        ELSE /\ req' = [req EXCEPT ![r] =
                  [rec EXCEPT !.sid = NowString(t),
                              !.aiArg = <<Msg("system", SystemPrompt),
                                          Msg("user", UserPrompt(idea))>>,
                              !.pc = "awaitAI"]]
             /\ now' = t
  /\ UNCHANGED <<app, probe, sessions, heap>>

\* the handler up to its await of callGroqAI(messages); t is what Date.now()
\* returns when the handler reads it
StartBegin(r, idea, email, t) ==
  /\ Arrives(r)
  /\ LET rec == [IdleReq EXCEPT !.kind = "start", !.idea = idea, !.email = email]
     IN IF Falsy(idea) \/ Falsy(email)
        THEN /\ Respond(r, rec, 400, ErrorBody("Idea and email required"))
             /\ t = now
             /\ now' = now
        ELSE /\ req' = [req EXCEPT ![r] =
                  [rec EXCEPT !.sid = NowString(t),
                              !.aiArg = <<Msg("system", SystemPrompt),
                                          Msg("user", UserPrompt(idea))>>,
                              !.pc = "awaitAI"]]
             /\ now' = t
  /\ UNCHANGED <<app, probe, sessions, heap>>

\* mutant of Put: the store keeps the newest session only
PutEvicting(key, ref) == [k \in {key} |-> ref]

\* sessions[key] = ref
Put(key, ref) ==
  [k \in DOMAIN sessions \cup {key} |-> IF k = key THEN ref ELSE sessions[k]]

\* mutant of StartResume: the result of callGroqAI is stored unchecked
StartResumeNoNullCheck(r, outcome) ==
  /\ req[r].kind = "start"
  /\ req[r].pc = "awaitAI"
  /\ LET blueprint == callGroqAI(outcome)
         rec == [req[r] EXCEPT !.ai = blueprint]
     IN /\ heap' = Append(heap,
             [idea |-> rec.idea, email |-> rec.email, blueprint |-> blueprint,
              history |-> Append(rec.aiArg, Msg("assistant", blueprint))])
        /\ sessions' = Put(rec.sid, Len(heap) + 1)
        /\ Respond(r, rec, 200,
             [NoBody EXCEPT !.sessionId = rec.sid, !.blueprint = blueprint])
  /\ UNCHANGED <<app, probe, now>>

\* the handler from the return of callGroqAI to its response
StartResume(r, outcome) ==
  /\ req[r].kind = "start"
  /\ req[r].pc = "awaitAI"
  /\ LET blueprint == callGroqAI(outcome)
         rec == [req[r] EXCEPT !.ai = blueprint]
     IN IF Falsy(blueprint)
        THEN /\ Respond(r, rec, 500, ErrorBody("AI generation failed"))
             /\ UNCHANGED <<app, probe, sessions, heap>>
        ELSE /\ heap' = Append(heap,
                  [idea |-> rec.idea, email |-> rec.email, blueprint |-> blueprint,
                   history |-> Append(rec.aiArg, Msg("assistant", blueprint))])
             /\ sessions' = Put(rec.sid, Len(heap) + 1)
             /\ Respond(r, rec, 200,
                  [NoBody EXCEPT !.sessionId = rec.sid, !.blueprint = blueprint])
  /\ UNCHANGED <<app, probe, now>>

\* ------------------------------------------------------------ /agent/message
\* mutant of ContinueBegin: the user message is not pushed before the call
ContinueBeginNoPush(r, sessionId, message) ==
  /\ Arrives(r)
  /\ LET rec == [IdleReq EXCEPT !.kind = "message", !.sessionId = sessionId,
                                !.message = message,
                                !.seen = Finalized(sessionId)]
         session == Lookup(sessionId)
     IN IF Falsy(sessionId) \/ session = NoRef
        THEN Respond(r, rec, 400, ErrorBody("Invalid session"))
        ELSE IF session = ProtoRef
        THEN Respond(r, [rec EXCEPT !.session = session], 500, ErrorBody("Server error"))
        ELSE req' = [req EXCEPT ![r] =
               [rec EXCEPT !.session = session,
                           !.aiArg = heap[session].history,
                           !.pc = "awaitAI"]]
  /\ UNCHANGED <<app, probe, now, sessions, heap>>

\* mutant of ContinueBegin: the user message is put at the front of the history
ContinueBeginUnshift(r, sessionId, message) ==
  /\ Arrives(r)
  /\ LET rec == [IdleReq EXCEPT !.kind = "message", !.sessionId = sessionId,
                                !.message = message,
                                !.seen = Finalized(sessionId)]
         session == Lookup(sessionId)
     IN IF Falsy(sessionId) \/ session = NoRef
        THEN /\ Respond(r, rec, 400, ErrorBody("Invalid session"))
             /\ heap' = heap
        ELSE IF session = ProtoRef
        THEN /\ Respond(r, [rec EXCEPT !.session = session], 500, ErrorBody("Server error"))
             /\ heap' = heap
        ELSE /\ heap' = [heap EXCEPT ![session].history = <<Msg("user", message)>> \o @]
             /\ req' = [req EXCEPT ![r] =
                  [rec EXCEPT !.session = session,
                              !.aiArg = heap'[session].history,
                              !.pc = "awaitAI"]]
  /\ UNCHANGED <<app, probe, now, sessions>>

\* mutant of ContinueBegin: only the new message is passed to the call
ContinueBeginOnlyNew(r, sessionId, message) ==
  /\ Arrives(r)
  /\ LET rec == [IdleReq EXCEPT !.kind = "message", !.sessionId = sessionId,
                                !.message = message,
                                !.seen = Finalized(sessionId)]
         session == Lookup(sessionId)
     IN IF Falsy(sessionId) \/ session = NoRef
        THEN /\ Respond(r, rec, 400, ErrorBody("Invalid session"))
             /\ heap' = heap
        ELSE IF session = ProtoRef
        THEN /\ Respond(r, [rec EXCEPT !.session = session], 500, ErrorBody("Server error"))
             /\ heap' = heap
        ELSE /\ heap' = [heap EXCEPT ![session].history = Append(@, Msg("user", message))]
             /\ req' = [req EXCEPT ![r] =
                  [rec EXCEPT !.session = session,
                              !.aiArg = <<Msg("user", message)>>,
                              !.pc = "awaitAI"]]
  /\ UNCHANGED <<app, probe, now, sessions>>

\* mutant of ContinueBegin: the handler has no try/catch, so the TypeError of
\* session.history.push on a prototype value ends it without a response
ContinueBeginNoCatch(r, sessionId, message) ==
  /\ Arrives(r)
  /\ LET rec == [IdleReq EXCEPT !.kind = "message", !.sessionId = sessionId,
                                !.message = message,
                                !.seen = Finalized(sessionId)]
         session == Lookup(sessionId)
     IN IF Falsy(sessionId) \/ session = NoRef
        THEN /\ Respond(r, rec, 400, ErrorBody("Invalid session"))
             /\ heap' = heap
        ELSE IF session = ProtoRef
        THEN /\ req' = [req EXCEPT ![r] = [rec EXCEPT !.session = session, !.pc = "crashed"]]
             /\ heap' = heap
        ELSE /\ heap' = [heap EXCEPT ![session].history = Append(@, Msg("user", message))]
             /\ req' = [req EXCEPT ![r] =
                  [rec EXCEPT !.session = session,
                              !.aiArg = heap'[session].history,
                              !.pc = "awaitAI"]]
  /\ UNCHANGED <<app, probe, now, sessions>>

\* the handler up to its await of callGroqAI(session.history)
ContinueBegin(r, sessionId, message) ==
  /\ Arrives(r)
  /\ LET rec == [IdleReq EXCEPT !.kind = "message", !.sessionId = sessionId,
                                !.message = message,
                                !.seen = Finalized(sessionId)]
         session == Lookup(sessionId)
     IN IF Falsy(sessionId) \/ session = NoRef
        THEN /\ Respond(r, rec, 400, ErrorBody("Invalid session"))
             /\ heap' = heap
        ELSE IF session = ProtoRef
        THEN \* session.history is undefined: push throws, the catch answers
             /\ Respond(r, [rec EXCEPT !.session = session], 500, ErrorBody("Server error"))
             /\ heap' = heap
        ELSE /\ heap' = [heap EXCEPT ![session].history = Append(@, Msg("user", message))]
             /\ req' = [req EXCEPT ![r] =
                  [rec EXCEPT !.session = session,
                              !.aiArg = heap'[session].history,
                              !.pc = "awaitAI"]]
  /\ UNCHANGED <<app, probe, now, sessions>>

\* mutant of ContinueResume: the reply is appended, the blueprint is not set
ContinueResumeStaleBlueprint(r, outcome) ==
  /\ req[r].kind = "message"
  /\ req[r].pc = "awaitAI"
  /\ LET reply == callGroqAI(outcome)
         rec == [req[r] EXCEPT !.ai = reply]
     IN IF Falsy(reply)
        THEN /\ Respond(r, rec, 500, ErrorBody("AI generation failed"))
             /\ heap' = heap
        ELSE /\ heap' = [heap EXCEPT
                  ![rec.session].history = Append(@, Msg("assistant", reply))]
             /\ Respond(r, rec, 200, [NoBody EXCEPT !.reply = reply, !.blueprint = reply])
  /\ UNCHANGED <<app, probe, now, sessions>>

\* mutant of ContinueResume: a failed attempt takes the last entry back
ContinueResumeRollback(r, outcome) ==
  /\ req[r].kind = "message"
  /\ req[r].pc = "awaitAI"
  /\ LET reply == callGroqAI(outcome)
         rec == [req[r] EXCEPT !.ai = reply]
     IN IF Falsy(reply)
        THEN /\ Respond(r, rec, 500, ErrorBody("AI generation failed"))
             /\ heap' = [heap EXCEPT
                  ![rec.session].history = SubSeq(@, 1, Len(@) - 1)]
        ELSE /\ heap' = [heap EXCEPT
                  ![rec.session].history = Append(@, Msg("assistant", reply)),
                  ![rec.session].blueprint = reply]
             /\ Respond(r, rec, 200, [NoBody EXCEPT !.reply = reply, !.blueprint = reply])
  /\ UNCHANGED <<app, probe, now, sessions>>

\* mutant of ContinueResume: the blueprint is one variable shared by all sessions
ContinueResumeSharedBlueprint(r, outcome) ==
  /\ req[r].kind = "message"
  /\ req[r].pc = "awaitAI"
  /\ LET reply == callGroqAI(outcome)
         rec == [req[r] EXCEPT !.ai = reply]
     IN IF Falsy(reply)
        THEN /\ Respond(r, rec, 500, ErrorBody("AI generation failed"))
             /\ heap' = heap
        ELSE /\ heap' = [s \in 1..Len(heap) |->
                  [heap[s] EXCEPT
                     !.history = IF s = rec.session
                                 THEN Append(@, Msg("assistant", reply)) ELSE @,
                     !.blueprint = reply]]
             /\ Respond(r, rec, 200, [NoBody EXCEPT !.reply = reply, !.blueprint = reply])
  /\ UNCHANGED <<app, probe, now, sessions>>

\* mutant of ContinueResume: on success only the last three entries of the
\* history are kept before the reply is appended
ContinueResumeTrimsHistory(r, outcome) ==
  /\ req[r].kind = "message"
  /\ req[r].pc = "awaitAI"
  /\ LET reply == callGroqAI(outcome)
         rec == [req[r] EXCEPT !.ai = reply]
         Recent(h) == SubSeq(h, Len(h) - 2, Len(h))
     IN IF Falsy(reply)
        THEN /\ Respond(r, rec, 500, ErrorBody("AI generation failed"))
             /\ heap' = heap
        ELSE /\ heap' = [heap EXCEPT
                  ![rec.session].history = Append(Recent(@), Msg("assistant", reply)),
                  ![rec.session].blueprint = reply]
             /\ Respond(r, rec, 200, [NoBody EXCEPT !.reply = reply, !.blueprint = reply])
  /\ UNCHANGED <<app, probe, now, sessions>>

\* the handler from the return of callGroqAI to its response
ContinueResume(r, outcome) ==
  /\ req[r].kind = "message"
  /\ req[r].pc = "awaitAI"
  /\ LET reply == callGroqAI(outcome)
         rec == [req[r] EXCEPT !.ai = reply]
     IN IF Falsy(reply)
        THEN /\ Respond(r, rec, 500, ErrorBody("AI generation failed"))
             /\ heap' = heap
        ELSE /\ heap' = [heap EXCEPT
                  ![rec.session].history = Append(@, Msg("assistant", reply)),
                  ![rec.session].blueprint = reply]
             /\ Respond(r, rec, 200, [NoBody EXCEPT !.reply = reply, !.blueprint = reply])
  /\ UNCHANGED <<app, probe, now, sessions>>

\* ------------------------------------------------------------ /agent/finalize
\* the handler up to its await of createPDFBuffer(session.blueprint)
FinalizeBegin(r, sessionId) ==
  /\ Arrives(r)
  /\ LET rec == [IdleReq EXCEPT !.kind = "finalize", !.sessionId = sessionId,
                                !.seen = Finalized(sessionId)]
         session == Lookup(sessionId)
     IN IF Falsy(sessionId) \/ session = NoRef
        THEN Respond(r, rec, 400, ErrorBody("Invalid session"))
        ELSE IF session = ProtoRef
        THEN \* session.blueprint is undefined: drawMarkdown throws on
             \* undefined.split, the promise rejects, the catch answers
             Respond(r, [rec EXCEPT !.session = session, !.pdfArg = <<Undefined>>,
                                    !.pdf = "rejected"],
                     500, ErrorBody("Server error"))
        ELSE req' = [req EXCEPT ![r] =
               [rec EXCEPT !.session = session,
                           !.pdfArg = <<heap[session].blueprint>>,
                           !.pdf = "pending",
                           !.pc = "awaitPDF"]]
  /\ UNCHANGED <<app, probe, now, sessions, heap>>

\* mutant of FinalizeRendered: the document is drawn from the blueprint the
\* session holds when the promise settles
FinalizeRenderedLateRead(r, ok) ==
  /\ req[r].kind = "finalize"
  /\ req[r].pc = "awaitPDF"
  /\ IF ok
     THEN req' = [req EXCEPT ![r] =
            [@ EXCEPT !.pdf = "resolved",
                      !.mailArg = <<[to |-> heap[req[r].session].email,
                                     attachment |-> createPDFBuffer(heap[req[r].session].blueprint)]>>,
                      !.mail = "pending",
                      !.pc = "awaitMail"]]
     ELSE Respond(r, [req[r] EXCEPT !.pdf = "rejected"], 500, ErrorBody("Server error"))
  /\ UNCHANGED <<app, probe, now, sessions, heap>>

\* the createPDFBuffer promise settles: resolved with the buffer (ok), or
\* rejected by the document's error event
FinalizeRendered(r, ok) ==
  /\ req[r].kind = "finalize"
  /\ req[r].pc = "awaitPDF"
  /\ IF ok
     THEN req' = [req EXCEPT ![r] =
            [@ EXCEPT !.pdf = "resolved",
                      !.mailArg = <<[to |-> heap[req[r].session].email,
                                     attachment |-> createPDFBuffer(req[r].pdfArg[1])]>>,
                      !.mail = "pending",
                      !.pc = "awaitMail"]]
     ELSE Respond(r, [req[r] EXCEPT !.pdf = "rejected"], 500, ErrorBody("Server error"))
  /\ UNCHANGED <<app, probe, now, sessions, heap>>

\* mutant of FinalizeSent: a rejected sendMail is not noticed
FinalizeSentUnchecked(r, ok) ==
  /\ req[r].kind = "finalize"
  /\ req[r].pc = "awaitMail"
  /\ Respond(r, [req[r] EXCEPT !.mail = IF ok THEN "resolved" ELSE "rejected"], 200,
       [NoBody EXCEPT !.message = <<"Blueprint finalized and emailed!">>])
  /\ UNCHANGED <<app, probe, now, sessions, heap>>

\* mutant of FinalizeSent: a delivered session is deleted from the store
FinalizeSentDiscards(r, ok) ==
  /\ req[r].kind = "finalize"
  /\ req[r].pc = "awaitMail"
  /\ IF ok
     THEN /\ Respond(r, [req[r] EXCEPT !.mail = "resolved"], 200,
               [NoBody EXCEPT !.message = <<"Blueprint finalized and emailed!">>])
          /\ sessions' = [k \in DOMAIN sessions \ {req[r].sessionId} |-> sessions[k]]
     ELSE /\ Respond(r, [req[r] EXCEPT !.mail = "rejected"], 500, ErrorBody("Server error"))
          /\ sessions' = sessions
  /\ UNCHANGED <<app, probe, now, heap>>

\* mutant of FinalizeSent: a delivered session has its blueprint cleared
FinalizeSentClears(r, ok) ==
  /\ req[r].kind = "finalize"
  /\ req[r].pc = "awaitMail"
  /\ IF ok
     THEN /\ Respond(r, [req[r] EXCEPT !.mail = "resolved"], 200,
               [NoBody EXCEPT !.message = <<"Blueprint finalized and emailed!">>])
          /\ heap' = [heap EXCEPT ![req[r].session].blueprint = EmptyStr]
     ELSE /\ Respond(r, [req[r] EXCEPT !.mail = "rejected"], 500, ErrorBody("Server error"))
          /\ heap' = heap
  /\ UNCHANGED <<app, probe, now, sessions>>

\* transporter.sendMail settles: resolved (ok) or rejected
FinalizeSent(r, ok) ==
  /\ req[r].kind = "finalize"
  /\ req[r].pc = "awaitMail"
  /\ IF ok
     THEN Respond(r, [req[r] EXCEPT !.mail = "resolved"], 200,
            [NoBody EXCEPT !.message = <<"Blueprint finalized and emailed!">>])
     ELSE Respond(r, [req[r] EXCEPT !.mail = "rejected"], 500, ErrorBody("Server error"))
  /\ UNCHANGED <<app, probe, now, sessions, heap>>

\* ------------------------------------------------------------ the server
Next ==
  \/ \E r \in Reqs, idea \in Ideas, t \in ClockReadings : \E email \in Emails(r) :
       StartBegin(r, idea, email, t)
  \/ \E r \in Reqs, outcome \in GatewayOutcomes : StartResume(r, outcome)
  \/ \E r \in Reqs, sessionId \in SessionIds : \E message \in Messages(r) :
       ContinueBegin(r, sessionId, message)
  \/ \E r \in Reqs, outcome \in GatewayOutcomes : ContinueResume(r, outcome)
  \/ \E r \in Reqs, sessionId \in SessionIds : FinalizeBegin(r, sessionId)
  \/ \E r \in Reqs, ok \in BOOLEAN : FinalizeRendered(r, ok)
  \/ \E r \in Reqs, ok \in BOOLEAN : FinalizeSent(r, ok)

Spec == Init /\ [][Next]_vars

\* ------------------------------------------------------------ the text functions alone
\* Texts a completion can carry: at most MaxPieces pieces, each a character
\* or the tail of an entity reference
Pieces ==
  {<<"&">>, <<"a", "m", "p", ";">>, <<"l", "t", ";">>, <<" ">>, <<"x">>, <<RSQUO>>}

RECURSIVE Texts(_)
Texts(n) ==
  IF n = 0 THEN {<<>>}
  ELSE LET shorter == Texts(n - 1)
       IN shorter \cup {t \o p : t \in shorter, p \in Pieces}

\* What the endpoint can answer to one fetch, status included: the fetch or
\* res.json() throws (kind "throw"), or a JSON body arrives (kind "data")
\* with res.ok true or false and choices[0].message.content absent, null or
\* a string. callGroqAI reads neither res.ok nor res.status.
HttpOutcomes ==
  {[kind |-> "throw", ok |-> b, content |-> Undefined] : b \in BOOLEAN}
    \cup {[kind |-> "data", ok |-> b, content |-> c] :
            b \in BOOLEAN, c \in {Undefined, Null} \cup Texts(1)}

\* "# Title\n- item one\n- item two\nPlain line."
TitleReply ==
  <<"#", " ", "Title", "\n", "-", " ", "item one", "\n",
    "-", " ", "item two", "\n", "Plain line.">>

\* Markdown a completion can carry: at most MaxPieces pieces, each a
\* newline, a line of one space, a space, a marker the renderer looks for,
\* a list number or a letter
MarkdownPieces ==
  {<<"\n">>, <<"\n", " ", "\n">>, <<" ">>, <<"*", "*">>, <<"-", " ">>,
   <<"*", " ">>, <<"#">>, <<"1", ".">>, <<"x">>}

RECURSIVE MarkdownTexts(_)
MarkdownTexts(n) ==
  IF n = 0 THEN {<<>>}
  ELSE LET shorter == MarkdownTexts(n - 1)
       IN shorter \cup {t \o p : t \in shorter, p \in MarkdownPieces}

\* the blueprints a session can hold for such completions: what cleanText
\* makes of them, when Start or Continue accept it (139, 165)
Blueprints(n) == {cleanText(t) : t \in MarkdownTexts(n)} \ {EmptyStr}

FunctionInit ==
  /\ now = 0
  /\ sessions = [k \in {} |-> NoRef]
  /\ heap = <<>>
  /\ req = [r \in Reqs |-> IdleReq]
  /\ app = AppInit
  /\ \/ \E raw \in Texts(MaxPieces) :
          probe = [fn |-> "cleanText", arg |-> raw, out |-> <<>>]
     \/ \E outcome \in HttpOutcomes :
          probe = [fn |-> "callGroqAI", arg |-> outcome, out |-> <<>>]
     \/ \E text \in Blueprints(MaxPieces) \cup {cleanText(TitleReply)} :
          probe = [fn |-> "createPDFBuffer", arg |-> text, out |-> <<>>]

\* cleanText(raw), then cleanText of what it returned
ApplyCleanText ==
  /\ probe.fn = "cleanText"
  /\ Len(probe.out) < 2
  /\ probe' = [probe EXCEPT !.out =
       Append(@, cleanText(IF @ = <<>> THEN probe.arg ELSE @[Len(@)]))]
  /\ UNCHANGED <<now, sessions, heap, req, app>>

\* await callGroqAI(messages), the endpoint answering probe.arg
ApplyCallGroqAI ==
  /\ probe.fn = "callGroqAI"
  /\ probe.out = <<>>
  /\ probe' = [probe EXCEPT !.out = <<callGroqAI(probe.arg)>>]
  /\ UNCHANGED <<now, sessions, heap, req, app>>

\* await createPDFBuffer(text), the document not failing
ApplyCreatePDFBuffer ==
  /\ probe.fn = "createPDFBuffer"
  /\ probe.out = <<>>
  /\ probe' = [probe EXCEPT !.out = <<createPDFBuffer(probe.arg)>>]
  /\ UNCHANGED <<now, sessions, heap, req, app>>

FunctionNext == ApplyCleanText \/ ApplyCallGroqAI \/ ApplyCreatePDFBuffer

FunctionSpec == FunctionInit /\ [][FunctionNext]_vars

\* ------------------------------------------------------------ a stubbed Gateway
\* The server with one client and a stub in place of the completion
\* endpoint: every Start carries the same idea and email, the endpoint
\* answers a Start with PlanReply and a Continue with TitleReply, and the
\* renderer and the sender do not fail. The steps are the server's own.
ScenarioIdea == <<"bakery site">>
ScenarioEmail == <<"a@b.com">>

\* "**Plan**\n- Hero section\n- Menu page"
PlanReply ==
  <<"*", "*", "Plan", "*", "*", "\n", "-", " ", "Hero section", "\n",
    "-", " ", "Menu page">>

StubAnswer(content) == [kind |-> "data", content |-> content]

ScenarioIds == {<<ToString(t)>> : t \in 0..MaxClock}

ScenarioNext ==
  \/ \E r \in Reqs, t \in ClockReadings : StartBegin(r, ScenarioIdea, ScenarioEmail, t)
  \/ \E r \in Reqs : StartResume(r, StubAnswer(PlanReply))
  \/ \E r \in Reqs, sessionId \in ScenarioIds : \E message \in Messages(r) :
       ContinueBegin(r, sessionId, message)
  \/ \E r \in Reqs : ContinueResume(r, StubAnswer(TitleReply))
  \/ \E r \in Reqs, sessionId \in ScenarioIds : FinalizeBegin(r, sessionId)
  \/ \E r \in Reqs : FinalizeRendered(r, TRUE)
  \/ \E r \in Reqs : FinalizeSent(r, TRUE)

ScenarioSpec == Init /\ [][ScenarioNext]_vars

\* ------------------------------------------------------------ frontend (App.jsx)
\* The App component on its own. A request in flight is the loading flag
\* its handler has set; the backend is what safeFetchJson returns for it:
\* { ok, data }, ok false for an error status, HTML, bad JSON or a network
\* failure.
\* the two emoji App puts in front of its messages
CHECK == "U+2705"
CROSS == "U+274C"
ServedIds == {<<"1">>, <<"2">>}
ServedBlueprints == {<<"A">>, <<"B">>}
Instructions == {EmptyStr, <<"shorter">>}
\* data.message of a finalize response, data.error of a failed one
\* (undefined when the failure carried no JSON)
SentMessage == <<"Blueprint sent to ", "a@b.com">>
ServedErrors == {Undefined, <<"Session not found">>}
ErrorMessage(error, fallback) ==
  <<CROSS, " ">> \o (IF Falsy(error) THEN fallback ELSE error)

\* onChange of the instruction field, shown while sessionId is set
TypeInstruction(text) ==
  /\ ~Falsy(app.sessionId)
  /\ app' = [app EXCEPT !.instruction = text]
  /\ UNCHANGED <<now, sessions, heap, req, probe>>

\* handleGenerate up to its await; the form is shown while sessionId is
\* null, its button disabled while loadingGenerate
GenerateBegin ==
  /\ Falsy(app.sessionId)
  /\ ~app.loadingGenerate
  /\ app' = [app EXCEPT !.message = EmptyStr, !.blueprint = EmptyStr,
                         !.loadingGenerate = TRUE]
  /\ UNCHANGED <<now, sessions, heap, req, probe>>

\* handleGenerate after its await
GenerateResume(ok, sessionId, blueprint, error) ==
  /\ app.loadingGenerate
  /\ app' = IF ok
            THEN [app EXCEPT !.sessionId = sessionId, !.blueprint = blueprint,
                             !.message = <<CHECK, " Blueprint generated!">>,
                             !.loadingGenerate = FALSE]
            ELSE [app EXCEPT !.message =
                               ErrorMessage(error, <<"Could not generate blueprint.">>),
                             !.loadingGenerate = FALSE]
  /\ UNCHANGED <<now, sessions, heap, req, probe>>

\* handleImprove up to its await; the button is shown while sessionId is
\* set and disabled while loadingImprove
ImproveBegin ==
  /\ ~Falsy(app.sessionId)
  /\ ~app.loadingImprove
  /\ ~Falsy(app.instruction)
  /\ app' = [app EXCEPT !.message = EmptyStr, !.loadingImprove = TRUE]
  /\ UNCHANGED <<now, sessions, heap, req, probe>>

\* handleImprove after its await
ImproveResume(ok, blueprint, error) ==
  /\ app.loadingImprove
  /\ app' = IF ok
            THEN [app EXCEPT !.blueprint = blueprint, !.instruction = EmptyStr,
                             !.message = <<CHECK, " Blueprint updated!">>,
                             !.loadingImprove = FALSE]
            ELSE [app EXCEPT !.message =
                               ErrorMessage(error, <<"Could not update blueprint.">>),
                             !.loadingImprove = FALSE]
  /\ UNCHANGED <<now, sessions, heap, req, probe>>

\* handleFinalize up to its await; the button is shown while sessionId is
\* set and disabled while loadingFinalize
FinalizeClick ==
  /\ ~Falsy(app.sessionId)
  /\ ~app.loadingFinalize
  /\ app' = [app EXCEPT !.message = EmptyStr, !.loadingFinalize = TRUE]
  /\ UNCHANGED <<now, sessions, heap, req, probe>>

\* handleFinalize after its await
FinalizeResume(ok, error) ==
  /\ app.loadingFinalize
  /\ app' = IF ok
            THEN [app EXCEPT !.message = SentMessage, !.sessionId = Null,
                             !.blueprint = EmptyStr, !.loadingFinalize = FALSE]
            ELSE [app EXCEPT !.message =
                               ErrorMessage(error, <<"Could not finalize blueprint.">>),
                             !.loadingFinalize = FALSE]
  /\ UNCHANGED <<now, sessions, heap, req, probe>>

FrontendNext ==
  \/ \E text \in Instructions : TypeInstruction(text)
  \/ GenerateBegin
  \/ \E ok \in BOOLEAN, sessionId \in ServedIds, blueprint \in ServedBlueprints,
          error \in ServedErrors :
       GenerateResume(ok, sessionId, blueprint, error)
  \/ ImproveBegin
  \/ \E ok \in BOOLEAN, blueprint \in ServedBlueprints, error \in ServedErrors :
       ImproveResume(ok, blueprint, error)
  \/ FinalizeClick
  \/ \E ok \in BOOLEAN, error \in ServedErrors : FinalizeResume(ok, error)

FrontendSpec == Init /\ [][FrontendNext]_vars

\* ------------------------------------------------------------ what always settles
\* The server with the progress its own code makes certain: the document is
\* drawn in memory and ended by createPDFBuffer itself (110), and the mail
\* transport gives up on a connection that stays silent, so these two
\* promises settle. The fetch of callGroqAI is called without a signal or a
\* timeout (48-60): its promise settles when the endpoint answers or the
\* connection fails, and nothing in the server makes either happen.
LiveSpec ==
  /\ Spec
  /\ \A r \in Reqs : WF_vars(\E ok \in BOOLEAN : FinalizeRendered(r, ok))
  /\ \A r \in Reqs : WF_vars(\E ok \in BOOLEAN : FinalizeSent(r, ok))

\* ------------------------------------------------------------ properties
\* the session objects the store holds
Stored == {sessions[k] : k \in DOMAIN sessions}

Last(seq) == seq[Len(seq)]

\* the position of the most recent assistant entry of a history (0: none)
LastAssistant(history) ==
  LET at == {i \in 1..Len(history) : history[i].role = "assistant"}
  IN IF at = {} THEN 0 ELSE CHOOSE i \in at : \A j \in at : j <= i

\* the Continue calls that got hold of session object s, by how they stand
Succeeded(s) ==
  {r \in Reqs : req[r].kind = "message" /\ req[r].session = s /\ req[r].status = 200}
FailedAtGateway(s) ==
  {r \in Reqs : /\ req[r].kind = "message" /\ req[r].session = s
                /\ req[r].status = 500 /\ req[r].aiArg # <<>>}
AwaitingGateway(s) ==
  {r \in Reqs : req[r].kind = "message" /\ req[r].session = s /\ req[r].pc = "awaitAI"}

\* C1: in every reachable state, the blueprint of every stored session is
\* the content of the most recent assistant entry of its history.
C1_BlueprintIsLastAssistant ==
  \A s \in Stored :
    /\ LastAssistant(heap[s].history) # 0
    /\ heap[s].blueprint = heap[s].history[LastAssistant(heap[s].history)].content

\* C1 witness: a session whose history ends in a user entry (a Continue in
\* flight or failed) after an earlier Continue replaced the blueprint.
C1_Witness ==
  \E s \in Stored :
    /\ Succeeded(s) # {}
    /\ Last(heap[s].history).role = "user"
    /\ heap[s].blueprint # heap[s].history[3].content

\* C2 as stated: the history of a session with N successful Continue calls
\* has 2 + 2N entries.
C2_LengthTwoPlusTwoN ==
  \A s \in Stored : Len(heap[s].history) = 2 + 2 * Cardinality(Succeeded(s))

\* C2 amended: the history has 3 + 2N entries, plus one for every Continue
\* call on the session that failed at the Gateway or still awaits it.
C2_LengthThreePlusTwoN ==
  \A s \in Stored :
    Len(heap[s].history) =
      3 + 2 * Cardinality(Succeeded(s))
        + Cardinality(FailedAtGateway(s)) + Cardinality(AwaitingGateway(s))

\* C2 witness: a session with a successful and a failed Continue call.
C2_Witness ==
  \E s \in Stored : Succeeded(s) # {} /\ FailedAtGateway(s) # {}

\* C3: a Start that succeeds writes its session under an id that is not yet
\* a key of the store and that no other successful Start returned, and the
\* blueprint it returns is not empty.
C3_FreshSessionId ==
  [][\A r \in Reqs :
       (req[r].kind = "start" /\ req[r].pc = "awaitAI" /\ req'[r].status = 200)
         => /\ req[r].sid \notin DOMAIN sessions
            /\ \A q \in Reqs \ {r} :
                 (req[q].kind = "start" /\ req[q].status = 200)
                   => req[q].body.sessionId # req'[r].body.sessionId
            /\ ~Falsy(req'[r].body.blueprint)]_vars

\* C4: while a Continue call awaits the Gateway, no step of another call
\* appends to the history of its session.
C4_ContinueSerialized ==
  [][\A r \in Reqs :
       (req[r].kind = "message" /\ req[r].pc = "awaitAI" /\ req'[r] = req[r])
         => heap'[req[r].session].history = heap[req[r].session].history]_vars

\* a Finalize call f that had answered with success before call r arrived,
\* r being a Continue or Finalize call with the same session id
AfterFinalize(f, r) ==
  /\ req[f].kind = "finalize"
  /\ req[f].status = 200
  /\ req[r].kind \in {"message", "finalize"}
  /\ req[r].sessionId = req[f].sessionId
  /\ f \in req[r].seen

\* C5 as stated: a Continue or Finalize call that arrives after a Finalize
\* on its session id succeeded is answered with the invalid-session error.
C5_FinalizedIdRejected ==
  \A f \in Reqs, r \in Reqs :
    AfterFinalize(f, r)
      => req[r].status = 400 /\ req[r].body = ErrorBody("Invalid session")

\* C5 amended: a successful Finalize leaves the session stored under its
\* id, and a Continue or Finalize call that arrives afterwards with that id
\* is accepted: it is never answered with the invalid-session error.
C5_FinalizedIdStillValid ==
  /\ \A f \in Reqs :
       (req[f].kind = "finalize" /\ req[f].status = 200)
         => req[f].sessionId \in DOMAIN sessions
  /\ \A f \in Reqs, r \in Reqs :
       AfterFinalize(f, r) => req[r].status # 400 /\ req[r].session \in 1..Len(heap)

\* C5 witness: a call answered with success after a Finalize on its id had
\* already succeeded.
C5_Witness ==
  \E f \in Reqs, r \in Reqs : AfterFinalize(f, r) /\ req[r].status = 200

\* C6: a Continue or Finalize call whose session id no successful Start has
\* returned is answered 400 "Invalid session" at once, calls neither the
\* Gateway, the renderer nor the mail sender, and leaves the store as it is.
C6_UnknownIdRejected ==
  [][\A r \in Reqs :
       ( /\ req[r].kind = "none"
         /\ req'[r].kind \in {"message", "finalize"}
         /\ ~\E q \in Reqs : /\ req[q].kind = "start"
                             /\ req[q].status = 200
                             /\ req[q].body.sessionId = req'[r].sessionId )
         => /\ req'[r].status = 400
            /\ req'[r].body = ErrorBody("Invalid session")
            /\ req'[r].aiArg = <<>>
            /\ req'[r].pdfArg = <<>>
            /\ req'[r].mailArg = <<>>
            /\ sessions' = sessions
            /\ heap' = heap]_vars

\* C7: when callGroqAI yields nothing usable during Start, the handler
\* answers 500 "AI generation failed", and no step of a Start that does not
\* answer with success changes the store.
C7_StartFailureCreatesNothing ==
  [][\A r \in Reqs :
       /\ ( /\ req[r].kind = "start" /\ req[r].pc = "awaitAI"
            /\ req'[r].pc = "done" /\ Falsy(req'[r].ai) )
            => /\ req'[r].status = 500
               /\ req'[r].body = ErrorBody("AI generation failed")
       /\ (req'[r] # req[r] /\ req'[r].kind = "start" /\ req'[r].status # 200)
            => sessions' = sessions /\ heap' = heap]_vars

\* C7 witness: a Start answered with the generation error while the store
\* already holds a session.
C7_Witness ==
  \E r \in Reqs :
    /\ req[r].kind = "start" /\ req[r].aiArg # <<>> /\ Falsy(req[r].ai)
    /\ req[r].status = 500
    /\ Stored # {}

\* C8: an accepted Continue appends exactly its user message before the
\* Gateway call; when callGroqAI then yields nothing usable the handler
\* answers 500 "AI generation failed" and changes no session: the user
\* message stays where it was appended, no assistant entry is added and the
\* blueprint is what it was.
C8_ContinueFailureKeepsUserMessage ==
  [][\A r \in Reqs :
       /\ (req[r].kind = "none" /\ req'[r].kind = "message" /\ req'[r].pc = "awaitAI")
            => LET s == req'[r].session
               IN /\ heap'[s].history
                       = Append(heap[s].history, Msg("user", req'[r].message))
                  /\ heap'[s].blueprint = heap[s].blueprint
       /\ ( /\ req[r].kind = "message" /\ req[r].pc = "awaitAI"
            /\ req'[r].pc = "done" /\ Falsy(req'[r].ai) )
            => LET s == req[r].session
                   n == Len(req[r].aiArg)
               IN /\ req'[r].status = 500
                  /\ req'[r].body = ErrorBody("AI generation failed")
                  /\ heap' = heap
                  /\ SubSeq(heap'[s].history, 1, n) = req[r].aiArg
                  /\ heap'[s].history[n] = Msg("user", req[r].message)]_vars

\* C8 witness: a Continue on a stored session answered with the generation
\* error, its user message the last entry of the history.
C8_Witness ==
  \E r \in Reqs :
    /\ req[r].kind = "message" /\ req[r].status = 500 /\ req[r].aiArg # <<>>
    /\ req[r].session \in Stored
    /\ Last(heap[req[r].session].history) = Msg("user", req[r].message)

\* C9: a Start whose idea or email is missing or empty is answered 400
\* "Idea and email required" at once, without a Gateway call and without a
\* change to the store.
C9_StartValidates ==
  [][\A r \in Reqs :
       ( /\ req[r].kind = "none" /\ req'[r].kind = "start"
         /\ (Falsy(req'[r].idea) \/ Falsy(req'[r].email)) )
         => /\ req'[r].status = 400
            /\ req'[r].body = ErrorBody("Idea and email required")
            /\ req'[r].aiArg = <<>>
            /\ sessions' = sessions
            /\ heap' = heap]_vars

\* C9 witness: a Start with an idea and an empty email, answered 400 while
\* the store holds a session.
C9_Witness ==
  \E r \in Reqs :
    /\ req[r].kind = "start" /\ ~Falsy(req[r].idea) /\ req[r].email = EmptyStr
    /\ req[r].status = 400
    /\ Stored # {}

\* C10: a Finalize answers with the success confirmation only when the
\* renderer's promise resolved and the mail sender, called after that,
\* resolved too; when either is rejected the answer is 500 without the
\* confirmation.
C10_FinalizeSuccessNeedsBoth ==
  \A r \in Reqs :
    req[r].kind = "finalize"
      => /\ req[r].mail # "none" => req[r].pdf = "resolved"
         /\ (req[r].status = 200 \/ req[r].body.message # Undefined)
              => req[r].pdf = "resolved" /\ req[r].mail = "resolved"
         /\ (req[r].pdf = "rejected" \/ req[r].mail = "rejected")
              => /\ req[r].status = 500
                 /\ req[r].body = ErrorBody("Server error")

\* C10 witness: a Finalize whose document was rendered and whose mail was
\* rejected.
C10_Witness ==
  \E r \in Reqs :
    req[r].kind = "finalize" /\ req[r].pdf = "resolved" /\ req[r].mail = "rejected"


\* C12: after every step, the history of every session object starts with
\* the fixed system instruction followed by the user prompt that embeds the
\* idea stored in that same session, and no step (of Start, Continue or
\* Finalize) changes the first two entries of a history that exists.
C12_HistoryPrefixFixed ==
  [][/\ \A s \in 1..Len(heap') :
          /\ Len(heap'[s].history) >= 2
          /\ heap'[s].history[1] = Msg("system", SystemPrompt)
          /\ heap'[s].history[2] = Msg("user", UserPrompt(heap'[s].idea))
     /\ \A s \in 1..Len(heap) :
          SubSeq(heap'[s].history, 1, 2) = SubSeq(heap[s].history, 1, 2)]_vars

\* a stored session that a Continue has extended twice over and a Finalize
\* has delivered still starts with the two entries
C12_Witness ==
  \E s \in Stored, r \in Reqs, f \in Reqs :
    /\ req[r].kind = "message" /\ req[r].session = s /\ req[r].status = 200
    /\ req[f].kind = "finalize" /\ req[f].session = s /\ req[f].status = 200
    /\ Len(heap[s].history) >= 5
    /\ heap[s].history[1] = Msg("system", SystemPrompt)
    /\ heap[s].history[2] = Msg("user", UserPrompt(heap[s].idea))

\* C13: once a session is stored under an id, the email and the idea stored
\* under that id never change, whatever call is made afterwards.
C13_EmailAndIdeaImmutable ==
  [][\A id \in DOMAIN sessions :
       /\ id \in DOMAIN sessions'
       /\ heap'[sessions'[id]].email = heap[sessions[id]].email
       /\ heap'[sessions'[id]].idea = heap[sessions[id]].idea]_vars

\* C14: when a Continue calls the Gateway, the message list it passes is the
\* whole history of its session at that moment, in order: what the history
\* held before the call followed by this call's user message as last entry;
\* this also holds while other Continue calls on the session are in flight.
C14_GatewayGetsWholeHistory ==
  [][\A r \in Reqs :
       (req[r].kind = "none" /\ req'[r].kind = "message" /\ req'[r].pc = "awaitAI")
         => LET s == req'[r].session
                passed == req'[r].aiArg
            IN /\ passed = heap'[s].history
               /\ Last(passed) = Msg("user", req'[r].message)
               /\ SubSeq(passed, 1, Len(passed) - 1) = heap[s].history]_vars

\* two Continue calls on one session await the Gateway, and the later one
\* has passed the earlier one's user message too
C14_Witness ==
  \E r \in Reqs, q \in Reqs :
    /\ r < q
    /\ req[r].kind = "message" /\ req[r].pc = "awaitAI"
    /\ req[q].kind = "message" /\ req[q].pc = "awaitAI"
    /\ req[q].session = req[r].session
    /\ req[q].aiArg = Append(req[r].aiArg, Msg("user", req[q].message))
    /\ req[q].aiArg = heap[req[q].session].history

\* C15: a Finalize hands the renderer the blueprint its session holds when
\* the call is made and nothing else afterwards; the sender is invoked only
\* once the renderer has finished, with the document drawn from that
\* blueprint and the email stored in that same session, whatever a Continue
\* has done to the session in between.
C15_FinalizeRendersWhatItFound ==
  [][\A r \in Reqs :
       /\ (req[r].kind = "none" /\ req'[r].kind = "finalize" /\ req'[r].pc = "awaitPDF")
            => /\ req'[r].pdfArg = <<heap[req'[r].session].blueprint>>
               /\ req'[r].mailArg = <<>>
       /\ (req[r].kind = "finalize" /\ req[r].pdfArg # <<>>)
            => req'[r].pdfArg = req[r].pdfArg
       /\ (req[r].kind = "finalize" /\ req[r].mailArg # <<>>)
            => req'[r].mailArg = req[r].mailArg
       /\ (req'[r].kind = "finalize" /\ req'[r].mailArg # <<>>)
            => /\ req'[r].pdf = "resolved"
               /\ req'[r].mailArg[1].attachment = createPDFBuffer(req'[r].pdfArg[1])
               /\ req'[r].mailArg[1].to = heap'[req'[r].session].email]_vars

\* the sender has been invoked for a Finalize whose session a Continue has
\* given another blueprint since the Finalize was made
C15_Witness ==
  \E r \in Reqs, c \in Reqs :
    /\ req[r].kind = "finalize" /\ req[r].pc = "awaitMail"
    /\ req[c].kind = "message" /\ req[c].status = 200 /\ req[c].session = req[r].session
    /\ heap[req[r].session].blueprint # req[r].pdfArg[1]
    /\ req[r].mailArg[1].attachment = createPDFBuffer(req[r].pdfArg[1])
    /\ req[r].mailArg[1].attachment # createPDFBuffer(heap[req[r].session].blueprint)

\* C16: no step of a Finalize call (its arrival, the renderer settling, the
\* sender settling, or an error answer) changes the session store: the keys,
\* the sessions they lead to and every field of every session stay as they
\* were.
C16_FinalizeLeavesStore ==
  [][\A r \in Reqs :
       (req'[r] # req[r] /\ req'[r].kind = "finalize")
         => /\ sessions' = sessions
            /\ heap' = heap]_vars

\* a Finalize has delivered a session that is still stored under its id
C16_Witness ==
  \E r \in Reqs :
    /\ req[r].kind = "finalize" /\ req[r].status = 200
    /\ req[r].sessionId \in DOMAIN sessions
    /\ sessions[req[r].sessionId] = req[r].session
    /\ heap[req[r].session].blueprint = req[r].pdfArg[1]

\* the session id a call is about: the one Start assigns, or the one the
\* client sent
Concerns(rec) == IF rec.kind = "start" THEN rec.sid ELSE rec.sessionId

\* C17: a step of a call about one session id leaves every session stored
\* under another id as it was: the same session object under that id, with
\* the same blueprint, history, email and idea.
C17_SessionsIsolated ==
  [][\A r \in Reqs :
       req'[r] # req[r]
         => \A k \in DOMAIN sessions \ {Concerns(req'[r])} :
              /\ k \in DOMAIN sessions'
              /\ sessions'[k] = sessions[k]
              /\ heap'[sessions'[k]] = heap[sessions[k]]]_vars

\* two sessions under two ids: a Continue has given one a new blueprint and
\* the other is as its Start left it
C17_Witness ==
  \E r \in Reqs, k \in DOMAIN sessions :
    /\ req[r].kind = "message" /\ req[r].status = 200
    /\ req[r].sessionId \in DOMAIN sessions
    /\ k # req[r].sessionId
    /\ Len(heap[sessions[req[r].sessionId]].history) = 5
    /\ Len(heap[sessions[k]].history) = 3
    /\ heap[sessions[k]].blueprint # heap[sessions[req[r].sessionId]].blueprint

\* C18: callGroqAI returns null whenever the fetch or the body parsing
\* throws, the HTTP response is not a success, or the content is missing or
\* empty; it returns text, the normalized content, only for a success
\* response that carries content. (No exception escapes: every result is a
\* value.)
C18_NullUnlessSuccessWithContent ==
  (probe.fn = "callGroqAI" /\ probe.out # <<>>)
    => LET outcome == probe.arg
           result == probe.out[1]
           success == outcome.kind = "data" /\ outcome.ok
           carries == outcome.kind = "data" /\ ~Falsy(outcome.content)
       IN IF success /\ carries
          THEN result = cleanText(outcome.content)
          ELSE result = Null

\* C20: cleanText applied to its own output returns that output unchanged,
\* for every input.
C20_CleanTextIdempotent ==
  (probe.fn = "cleanText" /\ Len(probe.out) = 2)
    => probe.out[2] = probe.out[1]

\* what went wrong for a request: a body that fails validation, a session
\* id that leads to no session object, an external call that gave nothing
\* or threw
Failed(rec) ==
  CASE rec.kind = "start" ->
         Falsy(rec.idea) \/ Falsy(rec.email) \/ Falsy(rec.ai)
    [] rec.kind = "message" ->
         Falsy(rec.sessionId) \/ rec.session \in {NoRef, ProtoRef} \/ Falsy(rec.ai)
    [] rec.kind = "finalize" ->
         \/ Falsy(rec.sessionId) \/ rec.session \in {NoRef, ProtoRef}
         \/ rec.pdf = "rejected" \/ rec.mail = "rejected"
    [] OTHER -> FALSE

\* an error body: an error text and none of the success fields
IsErrorBody(body) == body.error # Undefined /\ body = [NoBody EXCEPT !.error = body.error]

\* the external call a request waits for can settle, and the handler goes on
CanResume(r) ==
  \/ ENABLED (\E outcome \in GatewayOutcomes : StartResume(r, outcome))
  \/ ENABLED (\E outcome \in GatewayOutcomes : ContinueResume(r, outcome))
  \/ ENABLED (\E ok \in BOOLEAN : FinalizeRendered(r, ok))
  \/ ENABLED (\E ok \in BOOLEAN : FinalizeSent(r, ok))

\* C19: every request gets exactly one response: once answered, a request
\* is never answered again or otherwise; a request not yet answered waits
\* for an external call whose return or throw lets its handler go on; a
\* request that met a failure is answered with an error body and a 4xx/5xx
\* status, every other one with status 200 and no error field.
C19_ExactlyOneResponse ==
  /\ [](\A r \in Reqs :
          /\ req[r].status \in {0, 200, 400, 500}
          /\ (req[r].kind # "none" /\ req[r].status = 0) => CanResume(r)
          /\ req[r].status # 0 =>
               IF Failed(req[r])
               THEN req[r].status \in {400, 500} /\ IsErrorBody(req[r].body)
               ELSE req[r].status = 200 /\ req[r].body.error = Undefined)
  /\ [][\A r \in Reqs : req[r].status # 0 => req'[r] = req[r]]_vars

\* answered requests of all three outcomes: a validation error, a failure
\* of the sender answered with a server error, and a success
C19_Witness ==
  \E a \in Reqs, b \in Reqs, c \in Reqs :
    /\ req[a].status = 400 /\ IsErrorBody(req[a].body)
    /\ req[b].kind = "finalize" /\ req[b].mail = "rejected"
    /\ req[b].status = 500 /\ IsErrorBody(req[b].body)
    /\ req[c].status = 200

\* "Plan\n- Hero section\n- Menu page"
PlanWithoutMarkers ==
  <<"Plan", "\n", "-", " ", "Hero section", "\n", "-", " ", "Menu page">>

\* the Start of request r is answered with success in this step
StartSucceeds(r) ==
  req[r].kind = "start" /\ req[r].pc = "awaitAI" /\ req'[r].status = 200

\* C21 (as stated): a Start with idea "bakery site" and email "a@b.com"
\* whose Gateway call returns "**Plan**\n- Hero section\n- Menu page" stores
\* and returns the blueprint "Plan\n- Hero section\n- Menu page", and the
\* new session's history has length 3.
C21_PlanStoredWithoutMarkers ==
  [][\A r \in Reqs :
       StartSucceeds(r)
         => LET s == sessions'[req'[r].sid]
            IN /\ req'[r].body.blueprint = PlanWithoutMarkers
               /\ heap'[s].blueprint = PlanWithoutMarkers
               /\ Len(heap'[s].history) = 3]_vars

\* C21 (amended): that Start stores and returns the reply with its bold
\* markers in place, "**Plan**\n- Hero section\n- Menu page", and the new
\* session's history has length 3, its last entry the blueprint.
C21_PlanStoredAsReceived ==
  [][\A r \in Reqs :
       StartSucceeds(r)
         => LET s == sessions'[req'[r].sid]
            IN /\ req'[r].idea = <<"bakery site">> /\ req'[r].email = <<"a@b.com">>
               /\ req'[r].body.blueprint =
                    <<"*", "*", "Plan", "*", "*", "\n", "-", " ", "Hero section", "\n",
                      "-", " ", "Menu page">>
               /\ heap'[s].blueprint = req'[r].body.blueprint
               /\ Len(heap'[s].history) = 3
               /\ heap'[s].history[3] = Msg("assistant", heap'[s].blueprint)]_vars

\* the scenario's Start has been answered and its session is as stored
C21_Witness ==
  \E r \in Reqs :
    /\ req[r].kind = "start" /\ req[r].status = 200
    /\ req[r].idea = ScenarioIdea /\ req[r].email = ScenarioEmail
    /\ req[r].body.blueprint = PlanReply
    /\ req[r].sid \in DOMAIN sessions
    /\ heap[sessions[req[r].sid]].blueprint = PlanReply
    /\ Len(heap[sessions[req[r].sid]].history) = 3

\* the units of a text: its lines, trimmed, the empty ones left out
RECURSIVE UnitsOf(_, _)
UnitsOf(text, line) ==
  LET unit == Trim(line)
      done == IF unit = <<>> THEN <<>> ELSE <<unit>>
  IN IF text = <<>> THEN done
     ELSE IF Head(text) = "\n" THEN done \o UnitsOf(Tail(text), <<>>)
     ELSE UnitsOf(Tail(text), Append(line, Head(text)))

\* C22: for every blueprint text the renderer draws, in this order, the
\* title "Website Blueprint", the discount line, one body block for each
\* non-empty trimmed unit of the text in the units' order (the block that
\* unit is drawn as), and the call-to-action trailer: nothing before the
\* title, nothing after the trailer, no unit dropped, doubled or moved.
C22_RendererOrder ==
  (probe.fn = "createPDFBuffer" /\ probe.out # <<>>)
    => LET doc == probe.out[1]
           units == UnitsOf(probe.arg, <<>>)
       IN /\ Len(doc) = Len(units) + 3
          /\ doc[1] = [font |-> "title", text |-> <<"Website Blueprint">>]
          /\ doc[2] = DiscountLine
          /\ \A i \in 1..Len(units) : doc[i + 2] = DrawParagraph(units[i])
          /\ doc[Len(doc)] = CallToAction

\* a text of two different units with a blank line between them has been
\* drawn: two body blocks, in the units' order
C22_Witness ==
  /\ probe.fn = "createPDFBuffer" /\ probe.out # <<>>
  /\ \E i \in 1..Len(probe.arg) - 2 :
       SubSeq(probe.arg, i, i + 2) = <<"\n", " ", "\n">>
  /\ Len(UnitsOf(probe.arg, <<>>)) = 2
  /\ Len(probe.out[1]) = 5
  /\ probe.out[1][3] # probe.out[1][4]
  /\ probe.out[1][3].font = "Helvetica-Bold"


Digits == {"0", "1", "2", "3", "4", "5", "6", "7", "8", "9"}

\* the unit starts with digits followed by a period
IsNumbered(p) ==
  \E k \in 1..Len(p) - 1 :
    /\ \A i \in 1..k : p[i] \in Digits
    /\ p[k + 1] = "."

IsWrappedInBold(p) == StartsWith(p, <<"*", "*">>) /\ EndsWith(p, <<"*", "*">>)

\* the class and the text the listed rules give a unit, the first rule that
\* applies deciding ("delimiters stripped" read as: every "**" of the unit)
ListedBlock(p) ==
  IF IsWrappedInBold(p)
  THEN [kind |-> "heading", text |-> StripBold(p)]
  ELSE IF StartsWith(p, <<"-", " ">>) \/ StartsWith(p, <<"*", " ">>)
  THEN [kind |-> "bullet", text |-> SubSeq(p, 3, Len(p))]
  ELSE IF StartsWith(p, <<"#">>)
  THEN [kind |-> "heading", text |-> StripHashes(p)]
  ELSE IF IsNumbered(p)
  THEN [kind |-> "numbered", text |-> p]
  ELSE [kind |-> "paragraph", text |-> p]

\* the class and the text a drawn body block shows: heading weight, a
\* leading bullet glyph, an indent, or none of these
DrawnBlock(block) ==
  IF block.font = "Helvetica-Bold" THEN [kind |-> "heading", text |-> block.text]
  ELSE IF StartsWith(block.text, <<BULLET, " ">>)
  THEN [kind |-> "bullet", text |-> SubSeq(block.text, 3, Len(block.text))]
  ELSE IF block.indent > 0 THEN [kind |-> "numbered", text |-> block.text]
  ELSE [kind |-> "paragraph", text |-> block.text]

\* C23: every non-empty unit is drawn as the listed rules classify it: a
\* unit wrapped in "**" as a heading without the delimiters, a unit that
\* begins with "- " or "* " as a bullet with a bullet glyph for the marker,
\* a unit that begins with "#" as a heading without the markers, a unit
\* that begins with digits and a period as an indented numbered item with
\* its text as it is, any other unit as a plain paragraph; and
\* "# Title\n- item one\n- item two\nPlain line." is drawn as heading
\* "Title", bullet "item one", bullet "item two", paragraph "Plain line.".
C23_RendererClassifies ==
  (probe.fn = "createPDFBuffer" /\ probe.out # <<>>)
    => LET doc == probe.out[1]
           units == UnitsOf(probe.arg, <<>>)
       IN /\ Len(doc) = Len(units) + 3
          /\ \A i \in 1..Len(units) : DrawnBlock(doc[i + 2]) = ListedBlock(units[i])
          /\ probe.arg = TitleReply
               => <<DrawnBlock(doc[3]), DrawnBlock(doc[4]), DrawnBlock(doc[5]),
                    DrawnBlock(doc[6])>>
                  = <<[kind |-> "heading", text |-> <<"Title">>],
                      [kind |-> "bullet", text |-> <<"item one">>],
                      [kind |-> "bullet", text |-> <<"item two">>],
                      [kind |-> "paragraph", text |-> <<"Plain line.">>]>>

IsPrefix(a, b) == Len(a) <= Len(b) /\ SubSeq(b, 1, Len(a)) = a

\* C24: histories are append-only: in every step each session's history is
\* a prefix of what it becomes. A Continue that is accepted appends its user
\* message and nothing else; when its Gateway call settles it appends the
\* assistant reply if the call gave content and nothing if it did not (one
\* entry on failure, two on success); a rejected Continue and every step of
\* a Finalize append nothing to any history.
C24_HistoryAppendOnly ==
  [][/\ \A s \in 1..Len(heap) : IsPrefix(heap[s].history, heap'[s].history)
     /\ \A r \in Reqs :
          LET s == req'[r].session
          IN /\ (req[r].kind = "none" /\ req'[r].kind = "message" /\ req'[r].pc = "awaitAI")
                  => heap' = [heap EXCEPT ![s].history =
                                Append(@, Msg("user", req'[r].message))]
             /\ (req[r].kind = "message" /\ req[r].pc = "awaitAI" /\ req'[r].pc = "done")
                  => IF Falsy(req'[r].ai)
                     THEN \A o \in 1..Len(heap) : heap'[o].history = heap[o].history
                     ELSE /\ heap'[s].history =
                               Append(heap[s].history, Msg("assistant", req'[r].ai))
                          /\ \A o \in 1..Len(heap) \ {s} : heap'[o].history = heap[o].history
             /\ (req'[r] # req[r] /\ (\/ req'[r].kind = "finalize"
                                      \/ req'[r].kind = "message" /\ req[r].kind = "none"
                                           /\ req'[r].pc = "done"))
                  => \A o \in 1..Len(heap) : heap'[o].history = heap[o].history]_vars

\* one session has seen a Continue fail and a Continue succeed: its history
\* has grown from 3 entries by one and by two
C24_Witness ==
  \E s \in Stored, r \in Reqs, q \in Reqs :
    /\ req[r].kind = "message" /\ req[r].session = s /\ req[r].status = 500
    /\ req[q].kind = "message" /\ req[q].session = s /\ req[q].status = 200
    /\ Len(heap[s].history) = 6
    /\ Cardinality({i \in 1..6 : heap[s].history[i].role = "user"}) = 3
    /\ Cardinality({i \in 1..6 : heap[s].history[i].role = "assistant"}) = 2

\* C25: every accepted Start or Continue is answered in the end, also when
\* the completion endpoint never answers: a request that waits for the
\* Gateway does not wait forever.
C25_GatewayWaitBounded ==
  \A r \in Reqs : (req[r].pc = "awaitAI") ~> (req[r].pc = "done")

\* a text with something in it besides whitespace
HasSubstance(text) == ~Falsy(text) /\ Trim(text) # <<>>

\* C26: in every reachable state every session has a blueprint that is
\* neither empty nor whitespace only, and so has every assistant entry of
\* its history: no empty or whitespace-only Gateway reply is ever stored.
C26_NoEmptyBlueprint ==
  \A s \in 1..Len(heap) :
    /\ HasSubstance(heap[s].blueprint)
    /\ \A i \in 1..Len(heap[s].history) :
         heap[s].history[i].role = "assistant" => HasSubstance(heap[s].history[i].content)

\* the Gateway has given a Continue a whitespace-only reply, which was
\* cleaned to the empty string and not stored: the session keeps its blueprint
C26_Witness ==
  \E r \in Reqs :
    /\ req[r].kind = "message" /\ req[r].status = 500 /\ req[r].ai = EmptyStr
    /\ req[r].session \in Stored
    /\ HasSubstance(heap[req[r].session].blueprint)
    /\ Last(heap[req[r].session].history).role = "user"

\* C27: the set of session ids in the store only grows: no step of a Start,
\* Continue or Finalize, successful or not, takes an id out of it. So a
\* Finalize that arrives with a stored id is accepted however often that id
\* has been finalized before, and each one that succeeds has sent one email
\* of its own and leaves the id stored.
C27_SessionsOnlyGrow ==
  [][/\ DOMAIN sessions \subseteq DOMAIN sessions'
     /\ \A r \in Reqs :
          /\ (req[r].kind = "none" /\ req'[r].kind = "finalize"
                /\ req'[r].sessionId \in DOMAIN sessions)
               => req'[r].pc = "awaitPDF"
          /\ (req[r].kind = "finalize" /\ req[r].pc = "awaitMail" /\ req'[r].status = 200)
               => /\ req'[r].mail = "resolved"
                  /\ Len(req'[r].mailArg) = 1
                  /\ req'[r].sessionId \in DOMAIN sessions']_vars

\* a session has been finalized twice with success: two emails sent, the
\* second Finalize having arrived after the first had succeeded
C27_Witness ==
  \E f \in Reqs, g \in Reqs :
    /\ f # g
    /\ req[f].kind = "finalize" /\ req[f].status = 200 /\ req[f].mail = "resolved"
    /\ req[g].kind = "finalize" /\ req[g].status = 200 /\ req[g].mail = "resolved"
    /\ req[g].sessionId = req[f].sessionId
    /\ f \in req[g].seen
    /\ req[g].sessionId \in DOMAIN sessions
    /\ req[g].mailArg = req[f].mailArg

\* C28: in the frontend, whenever sessionId is null the blueprint on
\* display is the empty string, whatever the order of the Generate, Improve
\* and Finalize requests and their responses.
C28_NoBlueprintWithoutSession ==
  app.sessionId = Null => app.blueprint = EmptyStr
====
